---- MODULE Spec2Model ----
(***************************************************************************)
(* Model of the in-memory access layer of spykewave/datatype/core.py:      *)
(*   ChunkData  (the "VirtualMatrix" of the specification) and             *)
(*   Indexer    (the "LazySequence" of the specification), and            *)
(*   BaseData.segments, which builds an Indexer over a ChunkData.          *)
(* Rows and columns are 0-based as in the source; TLA+ sequences are       *)
(* 1-based, so a list position p of the source is position p+1 here.       *)
(***************************************************************************)
EXTENDS Integers, Sequences, FiniteSets, TLC

\* ---------------------------------------------------------------- bounds
MaxChunks == 3      \* longest chunk list handed to ChunkData
MaxRows   == 2      \* most rows of one chunk
MaxCols   == 2      \* most columns of one chunk
MaxWrites == 1      \* in-place writes to a chunk or a result after a query
MaxLen    == 5      \* most elements of a producer, largest Indexer length
MaxCalls  == 3      \* calls made on one Indexer
NProd     == 2      \* producers (iterators over the same source) on the heap
MaxSegs   == 2      \* most rows of a segment table
MaxIdxLen == 2      \* largest Indexer length in the runs with slices and lists

\* ------------------------------------------------------------ Python values
\* Optional values: None is the empty tuple, a present value k is <<k>>.
None == <<>>
Some(k) == <<k>>

Min(a, b) == IF a < b THEN a ELSE b
Max(a, b) == IF a > b THEN a ELSE b

NoWrites == [chunk |-> 0, result |-> 0]

\* an in-place write (x *= -1) turns the cell value v into
Written(v) == 0 - v

\* the value chunk h holds at local row r, column c before anybody writes
Cell0(h, r, c) == h * 100 + r * 10 + c

VARIABLES
    store,        \* heap of chunk storage: handle -> [shape, buf]
    chunk_list,   \* the argument of ChunkData(...)
    pc,           \* "new": not yet constructed, "built", "failed"
    _M, _N, _shape, _size, _nrows, _data, _rows,   \* ChunkData.__slots__
    q,            \* the last query handed to __getitem__
    res,          \* what the last query returned
    err,          \* the exception the last call raised (type "none": none)
    wlog          \* number of in-place writes made after the last query,
                  \* to chunks and to the returned block

vmvars == <<store, chunk_list, pc, _M, _N, _shape, _size, _nrows, _data,
            _rows, q, res, err, wlog>>

VARIABLES
    plen,         \* number of elements the source behind the producers yields
    cursor,       \* heap of producers: producer -> elements consumed so far
    _iterobj, _iterlen,                            \* Indexer.__slots__
    it,           \* the iterator the last iter(indexer) returned (0: none)
    log           \* the calls made on the Indexer, oldest first

lsvars == <<plen, cursor, _iterobj, _iterlen, it, log>>

VARIABLES
    _trialinfo,   \* BaseData._trialinfo: one <<start, stop>> row per segment
    seqs,         \* the Indexers the reads of obj.segments returned so far
    self          \* the one of them the caller works with (0: none)

bdvars == <<_trialinfo, seqs, self>>

vars == <<vmvars, lsvars, bdvars>>

\* --------------------------------------------------------------- exceptions
NoErr == [type |-> "none"]
SPWTypeError(varname, expected) ==
    [type |-> "SPWTypeError", varname |-> varname, expected |-> expected]
SPWValueError(legal, varname, actual) ==
    [type |-> "SPWValueError", legal |-> legal, varname |-> varname,
     actual |-> actual]
IndexError == [type |-> "IndexError"]
ValueError == [type |-> "ValueError"]
StopIteration == [type |-> "StopIteration"]

\* the message "value between {lb} and {ub}"
Between(lb, ub) == [lb |-> lb, ub |-> ub]

\* spykewave.utils.spw_scalar_parser with ntype="int_like": the value must
\* lie in the closed interval lims[1]..lims[2]
spw_scalar_parser(var, varname, lims) ==
    IF var < lims[1] \/ var > lims[2]
    THEN SPWValueError(Between(lims[1], lims[2]), varname, <<var>>)
    ELSE NoErr

\* spykewave.utils.spw_array_parser with ntype="int_like", dims=1: every
\* entry of the array must lie in the closed interval lims[1]..lims[2]
spw_array_parser(var, varname, lims) ==
    IF \E k \in 1..Len(var) : var[k] < lims[1] \/ var[k] > lims[2]
    THEN SPWValueError(Between(lims[1], lims[2]), varname, var)
    ELSE NoErr

\* ------------------------------------------------------------------- chunks
\* a chunk: shape is a tuple (rank = its length), buf[r][c] the cell values
Chunk(h, shape) ==
    [shape |-> shape,
     buf   |-> IF Len(shape) = 2
               THEN [r \in 0..(shape[1] - 1) |->
                        [c \in 0..(shape[2] - 1) |-> Cell0(h, r, c)]]
               ELSE <<>>]

Shapes == {<<r, c>> : r \in 0..MaxRows, c \in 1..MaxCols} \cup {<<1>>}

\* unassigned slot values
Unset == -1

\* the slots an object has before __init__ assigns them
NoSlots == [_nrows |-> <<>>, _rows |-> <<>>, _M |-> Unset, _N |-> Unset,
            _shape |-> <<>>, _size |-> Unset, _data |-> <<>>]

\* a mis-written running sum: the entry itself, nothing accumulated
cumsumNoCarry(s, k) == IF k = 0 THEN 0 ELSE s[k]

RECURSIVE cumsum(_, _)
\* np.cumsum: the running sum of the first k entries of s
cumsum(s, k) == IF k = 0 THEN 0 ELSE cumsum(s, k - 1) + s[k]

\* a mis-written line 309: the row counts are compared, not the column counts
SameColsOnRows(shapes) ==
    \A i \in 1..Len(shapes) : shapes[i][1] = shapes[1][1]

\* line 309: np.array_equal of the column counts with the first one repeated
SameCols(shapes) ==
    \A i \in 1..Len(shapes) : shapes[i][2] = shapes[1][2]

\* a mis-written line 318: the stop of a range counted as part of it
rowRangeInclusive(start, stop) == [start |-> start, stop |-> stop + 1]

\* line 318: range(start, stop)
rowRange(start, stop) == [start |-> start, stop |-> stop]

\* lines 312-322: the slots assigned for a checked chunk list
Slots(items) ==
    LET n      == Len(items)
        nrows  == [i \in 1..n |-> store[items[i]].shape[1]]
        cumlen == [i \in 1..n |-> cumsum(nrows, i)]
        M      == cumlen[n]
        N      == store[items[1]].shape[2]
    IN  [_nrows |-> nrows,
         _rows  |-> [i \in 1..n |-> rowRange(cumlen[i] - nrows[i], cumlen[i])],
         _M     |-> M,
         _N     |-> N,
         _shape |-> <<M, N>>,
         _size  |-> M * N,
         _data  |-> items]

\* ChunkData.__init__: the exception raised, or the slots assigned
__init__(cl) ==
    IF cl.kind # "list"
    THEN [err |-> SPWTypeError("chunk_list", "array_like"), slots |-> NoSlots]
    ELSE
    LET items  == cl.items
        n      == Len(items)
        shapes == [i \in 1..n |-> store[items[i]].shape]
    IN  IF \E i \in 1..n : Len(shapes[i]) # 2
        THEN [err |-> SPWValueError("2d-array", "chunk in chunk_list", None),
              slots |-> NoSlots]
        ELSE IF n = 0
        THEN [err |-> IndexError, slots |-> NoSlots]      \* shapes[0][1]
        ELSE IF ~SameCols(shapes)
        THEN [err |-> SPWValueError("identical number of samples per chunk",
                                    "chunk_list", None),
              slots |-> NoSlots]
        ELSE [err |-> NoErr, slots |-> Slots(items)]

\* ---------------------------------------------------------------- selectors
IntSel(k) == [t |-> "int", v |-> k]
SliceSel(a, b) == [t |-> "slice", start |-> a, stop |-> b]
OtherSel == [t |-> "other"]

\* lines 334-349 (rows) and 351-366 (columns): selector -> slice(start, stop)
ToSlice(sel, varname, extent) ==
    IF sel.t = "int"
    THEN LET e == spw_scalar_parser(sel.v, varname, <<0, extent>>)
         IN  IF e.type # "none"
             THEN [err |-> e]
             ELSE [err |-> NoErr, start |-> sel.v, stop |-> sel.v + 1]
    ELSE IF sel.t = "slice"
    THEN [err   |-> NoErr,
          start |-> IF sel.start = None THEN 0 ELSE sel.start[1],
          stop  |-> IF sel.stop = None THEN extent ELSE sel.stop[1]]
    ELSE [err |-> SPWTypeError(varname, "int_like or slice")]

\* a mis-written limits test: a stop one past the extent is let through
InLimitsLoose(sl, extent) ==
    (0 <= sl.start /\ sl.start < extent)
    /\ (0 < sl.stop /\ sl.stop <= extent + 1)

\* lines 370, 373: the limits test of a resolved slice
InLimits(sl, extent) ==
    (0 <= sl.start /\ sl.start < extent) /\ (0 < sl.stop /\ sl.stop <= extent)

\* the positions a Python slice start:stop selects on an axis of length n
\* (start, stop >= 0, which InLimits guarantees)
PySlice(n, start, stop) ==
    [k \in 1..Max(0, Min(stop, n) - start) |-> start + k - 1]

\* chunk positions i (0-based) with "g in self._rows[i]"
Where(g) == {i \in 0..(Len(_rows) - 1) :
                _rows[i + 1].start <= g /\ g < _rows[i + 1].stop}

\* the current contents of rows rs, columns cs of chunk handle h
Block(h, rs, cs) ==
    [i \in 1..Len(rs) |-> [j \in 1..Len(cs) |-> store[h].buf[rs[i]][cs[j]]]]

RECURSIVE vstack(_)
\* np.vstack: a new buffer holding the rows of the blocks, in order
vstack(blocks) ==
    IF blocks = <<>> THEN <<>> ELSE Head(blocks) \o vstack(Tail(blocks))

View(h, rs, cs) == [kind |-> "view", base |-> h, rows |-> rs, cols |-> cs]
Owned(buf) == [kind |-> "owned", buf |-> buf]
NoRes == [kind |-> "none"]

\* shape of the chunk at position i (0-based) of self._data
ChunkRows(i) == store[_data[i + 1]].shape[1]
ChunkCols(i) == store[_data[i + 1]].shape[2]

\* "[..., col]" on the chunk at position i
ColIdx(i, col) == PySlice(ChunkCols(i), col.start, col.stop)

\* line 384: the tail of chunk i1, from the row the query starts at
FirstBlock(i1, row, col) ==
    Block(_data[i1 + 1],
          PySlice(ChunkRows(i1), row.start - _rows[i1 + 1].start,
                  ChunkRows(i1)),
          ColIdx(i1, col))

\* lines 385-386: every chunk strictly between i1 and i2, all of its rows
MidBlocks(i1, i2, col) ==
    [k \in 1..Max(0, i2 - i1 - 1) |->
        Block(_data[i1 + k + 1],
              PySlice(ChunkRows(i1 + k), 0, ChunkRows(i1 + k)),
              ColIdx(i1 + k, col))]

\* a mis-written line 387: the last row of the query is left out
LastBlockShort(i2, row, col) ==
    Block(_data[i2 + 1],
          PySlice(ChunkRows(i2), 0, row.stop - 1 - _rows[i2 + 1].start),
          ColIdx(i2, col))

\* line 387: the head of chunk i2, up to the row the query stops at
LastBlock(i2, row, col) ==
    Block(_data[i2 + 1],
          PySlice(ChunkRows(i2), 0, row.stop - _rows[i2 + 1].start),
          ColIdx(i2, col))

\* a mis-written lines 394-395: the rows are picked into a new buffer
SameChunkCopy(i1, row, col) ==
    Owned(Block(_data[i1 + 1],
                PySlice(ChunkRows(i1), row.start - _rows[i1 + 1].start,
                        row.stop - _rows[i1 + 1].start),
                ColIdx(i1, col)))

\* lines 394-395: basic slicing of one chunk, a view of its storage
SameChunk(i1, row, col) ==
    View(_data[i1 + 1],
         PySlice(ChunkRows(i1), row.start - _rows[i1 + 1].start,
                 row.stop - _rows[i1 + 1].start),
         ColIdx(i1, col))

\* lines 377-395: the block for in-limits slices row, col
Fetch(row, col) ==
    LET w1 == Where(row.start)
        w2 == Where(row.stop - 1)
    IN  IF Cardinality(w1) # 1 \/ Cardinality(w2) # 1
        THEN [err |-> ValueError, res |-> NoRes]          \* .item()
        ELSE
        LET i1 == CHOOSE i \in w1 : TRUE
            i2 == CHOOSE i \in w2 : TRUE
        IN  IF i1 # i2
            THEN [err |-> NoErr,
                  res |-> Owned(vstack(<<FirstBlock(i1, row, col)>>
                                       \o MidBlocks(i1, i2, col)
                                       \o <<LastBlock(i2, row, col)>>))]
            ELSE [err |-> NoErr, res |-> SameChunk(i1, row, col)]

\* ChunkData.__getitem__((qrow, qcol))
__getitem__(qrow, qcol) ==
    LET row == ToSlice(qrow, "row", _M)
    IN  IF row.err.type # "none" THEN [err |-> row.err, res |-> NoRes]
        ELSE
        LET col == ToSlice(qcol, "col", _N)
        IN  IF col.err.type # "none" THEN [err |-> col.err, res |-> NoRes]
            ELSE IF ~InLimits(row, _M)
            THEN [err |-> SPWValueError(Between(0, _M), "row",
                                        <<row.start, row.stop>>),
                  res |-> NoRes]
            ELSE IF ~InLimits(col, _N)
            THEN [err |-> SPWValueError(Between(0, _N), "col",
                                        <<col.start, col.stop>>),
                  res |-> NoRes]
            ELSE Fetch(row, col)

\* ------------------------------------------------------------------ actions
NoQuery == [row |-> OtherSel, col |-> OtherSel, made |-> FALSE]

Bounds(extent) == {None} \cup {Some(k) : k \in -1..(extent + 1)}
Selectors(extent) ==
    {IntSel(k) : k \in -1..(extent + 1)}
    \cup {SliceSel(a, b) : a \in Bounds(extent), b \in Bounds(extent)}
    \cup {OtherSel}

\* the selectors every selector of the other axis is paired with: the whole
\* axis, its last position as a range, a range ending one past the extent,
\* and the integer one past the extent
CoreSelectors(extent) ==
    {SliceSel(None, None), SliceSel(Some(extent - 1), Some(extent)),
     SliceSel(None, Some(extent + 1)), IntSel(extent + 1)}

\* the (qrow, qcol) pairs handed to __getitem__
Queries ==
    (Selectors(_M) \X CoreSelectors(_N))
    \cup (CoreSelectors(_M) \X Selectors(_N))

ChunkLists ==
    {[kind |-> "other", items |-> <<>>]}
    \cup {[kind |-> "list", items |-> [i \in 1..n |-> i]] : n \in 0..MaxChunks}

\* no ChunkData is under construction
VMIdle ==
    /\ chunk_list = [kind |-> "other", items |-> <<>>]
    /\ store = <<>>
    /\ pc = "idle"
    /\ _M = Unset /\ _N = Unset /\ _size = Unset
    /\ _shape = <<>> /\ _nrows = <<>> /\ _data = <<>> /\ _rows = <<>>
    /\ q = NoQuery
    /\ res = NoRes
    /\ err = NoErr
    /\ wlog = NoWrites

VMInit ==
    /\ chunk_list \in ChunkLists
    /\ \E shp \in [1..Len(chunk_list.items) -> Shapes] :
          store = [h \in 1..Len(chunk_list.items) |-> Chunk(h, shp[h])]
    /\ pc = "new"
    /\ _M = Unset /\ _N = Unset /\ _size = Unset
    /\ _shape = <<>> /\ _nrows = <<>> /\ _data = <<>> /\ _rows = <<>>
    /\ q = NoQuery
    /\ res = NoRes
    /\ err = NoErr
    /\ wlog = NoWrites

\* ChunkData(chunk_list)
Construct ==
    /\ pc = "new"
    /\ LET r == __init__(chunk_list)
       IN  /\ pc' = IF r.err.type = "none" THEN "built" ELSE "failed"
           /\ err' = r.err
           /\ _nrows' = r.slots._nrows
           /\ _rows' = r.slots._rows
           /\ _M' = r.slots._M
           /\ _N' = r.slots._N
           /\ _shape' = r.slots._shape
           /\ _size' = r.slots._size
           /\ _data' = r.slots._data
    /\ UNCHANGED <<store, chunk_list, q, res, wlog>>
    /\ UNCHANGED lsvars
    /\ UNCHANGED bdvars

\* obj[qrow, qcol]
Get ==
    /\ pc = "built"
    /\ ~q.made
    /\ \E qq \in Queries :
          LET qrow == qq[1]
              qcol == qq[2]
              r == __getitem__(qrow, qcol)
          IN  /\ q' = [row |-> qrow, col |-> qcol, made |-> TRUE]
              /\ res' = r.res
              /\ err' = r.err
    /\ UNCHANGED <<store, chunk_list, pc, _M, _N, _shape, _size, _nrows,
                   _data, _rows, wlog>>
    /\ UNCHANGED lsvars
    /\ UNCHANGED bdvars

\* while the caller holds a block, the owner of a chunk with at least one
\* row writes to the chunk in place: chunk *= -1
WriteChunk ==
    /\ res.kind # "none"
    /\ wlog.chunk + wlog.result < MaxWrites
    /\ \E h \in DOMAIN store :
          /\ store[h].shape[1] > 0
          /\ store' = [store EXCEPT ![h].buf =
                          [r \in DOMAIN @ |->
                              [c \in DOMAIN @[r] |-> Written(@[r][c])]]]
    /\ wlog' = [wlog EXCEPT !.chunk = @ + 1]
    /\ UNCHANGED <<chunk_list, pc, _M, _N, _shape, _size, _nrows, _data,
                   _rows, q, res, err>>
    /\ UNCHANGED lsvars
    /\ UNCHANGED bdvars

\* the caller writes in place to the block a query returned (block *= -1):
\* a view writes through to the cells of its base, an owned buffer is
\* changed itself
WriteResult ==
    /\ wlog.chunk + wlog.result < MaxWrites
    /\ \/ /\ res.kind = "view"
          /\ res.rows # <<>>
          /\ store' = [store EXCEPT ![res.base].buf =
                          [r \in DOMAIN @ |->
                              [c \in DOMAIN @[r] |->
                                  IF /\ \E i \in 1..Len(res.rows) :
                                           res.rows[i] = r
                                     /\ \E j \in 1..Len(res.cols) :
                                           res.cols[j] = c
                                  THEN Written(@[r][c]) ELSE @[r][c]]]]
          /\ res' = res
       \/ /\ res.kind = "owned"
          /\ res.buf # <<>>
          /\ res' = [res EXCEPT !.buf =
                        [i \in DOMAIN @ |->
                            [j \in DOMAIN @[i] |-> Written(@[i][j])]]]
          /\ store' = store
    /\ wlog' = [wlog EXCEPT !.result = @ + 1]
    /\ UNCHANGED <<chunk_list, pc, _M, _N, _shape, _size, _nrows, _data,
                   _rows, q, err>>
    /\ UNCHANGED lsvars
    /\ UNCHANGED bdvars

\* the caller drops the block (or the exception) of the last query and the
\* writes made through it; the object is ready for its next query
Release ==
    /\ q.made
    /\ wlog = NoWrites
    /\ q' = NoQuery
    /\ res' = NoRes
    /\ err' = NoErr
    /\ UNCHANGED <<store, chunk_list, pc, _M, _N, _shape, _size, _nrows,
                   _data, _rows, wlog>>
    /\ UNCHANGED lsvars
    /\ UNCHANGED bdvars

\* ------------------------------------------------------------------ Indexer
\* next(p) on a producer with cursor c over a source of n elements: the
\* element at the cursor (elements are named by their position in the
\* source), or StopIteration; the cursor moves past a yielded element
next(c, n) ==
    IF c < n THEN [err |-> NoErr, ret |-> Some(c), cursor |-> c + 1]
    ELSE [err |-> StopIteration, ret |-> None, cursor |-> c]

RECURSIVE consume(_, _, _)
\* itertools.islice skipping k elements: k calls of next, fewer when the
\* producer runs out
consume(c, n, k) ==
    IF k = 0 THEN c
    ELSE LET r == next(c, n)
         IN  IF r.err.type # "none" THEN r.cursor
             ELSE consume(r.cursor, n, k - 1)

\* a mis-written islice: the element at absolute position start is sought
isliceNextAbsolute(c, n, start) == next(consume(0, n, start), n)

\* next(islice(p, start, start + 1))
isliceNext(c, n, start) == next(consume(c, n, start), n)

NumIdx(i) == [t |-> "int", v |-> i]
OtherIdx == [t |-> "other"]
SliceIdx(start, stop, step) ==
    [t |-> "slice", start |-> start, stop |-> stop, step |-> step]
ListIdx(v) == [t |-> "list", v |-> v]

RECURSIVE isliceRun(_, _, _, _, _, _, _)
\* the run of an islice object until it is exhausted, as np.hstack drives it:
\* cnt elements taken from the producer so far, nxt the count at which the
\* next element is handed out, els the elements handed out so far.  Elements
\* are skipped up to nxt; nothing is handed out from stop on; after a
\* hand-out nxt moves by step and is cut back to stop
isliceRun(c, n, cnt, nxt, stop, step, els) ==
    IF cnt < nxt
    THEN IF c < n
         THEN isliceRun(c + 1, n, cnt + 1, nxt, stop, step, els)
         ELSE [els |-> els, cursor |-> c]
    ELSE IF cnt >= stop \/ c >= n
    THEN [els |-> els, cursor |-> c]
    ELSE isliceRun(c + 1, n, cnt + 1,
                   IF nxt + step > stop THEN stop ELSE nxt + step,
                   stop, step, Append(els, c))

\* a block of several elements side by side
Hstack(els) == [cat |-> els]

\* np.hstack over the elements handed to it: no element, no block
hstack(els, c) ==
    IF els = <<>>
    THEN [err |-> ValueError, ret |-> None, cursor |-> c]
    ELSE [err |-> NoErr, ret |-> Some(Hstack(els)), cursor |-> c]

\* a mis-written slice branch: the elements are taken from a copy of the
\* producer, whose own cursor stays where it was
hstackIsliceOnCopy(c, n, start, stop, step) ==
    IF step # None /\ step[1] < 1
    THEN [err |-> ValueError, ret |-> None, cursor |-> c]
    ELSE hstack(isliceRun(c, n, 0, start, stop,
                          IF step = None THEN 1 ELSE step[1], <<>>).els, c)

\* line 431: np.hstack(islice(p, start, stop, step)); islice refuses a step
\* below 1 before it touches the producer
hstackIslice(c, n, start, stop, step) ==
    IF step # None /\ step[1] < 1
    THEN [err |-> ValueError, ret |-> None, cursor |-> c]
    ELSE LET r == isliceRun(c, n, 0, start, stop,
                            IF step = None THEN 1 ELSE step[1], <<>>)
         IN  hstack(r.els, r.cursor)

RECURSIVE listTake(_, _, _, _)
\* line 438: the list comprehension, one next(islice(p, ix, ix + 1)) per entry
\* in the order of the list; a StopIteration ends it and drops what it had
listTake(c, n, ixs, els) ==
    IF ixs = <<>> THEN hstack(els, c)
    ELSE LET r == next(consume(c, n, Head(ixs)), n)
         IN  IF r.err.type # "none" THEN r
             ELSE listTake(r.cursor, n, Tail(ixs), Append(els, r.ret[1]))

\* line 435: the limits handed to spw_array_parser
ArrLims == <<0, _iterlen>>

\* mis-written limits: those of the list branch, which let idx = iterlen pass
IdxLimsLoose == <<0, _iterlen>>

\* line 416: the limits handed to spw_scalar_parser
IdxLims == <<0, _iterlen - 1>>

\* Indexer.__getitem__(idx) on a producer whose cursor is c, for idx a number
\* (lines 413-419), a slice (lines 420-431), a list (lines 432-438) or of an
\* unsupported type (lines 439-440)
Indexer__getitem__(idx, c) ==
    IF idx.t = "int"
    THEN LET e == spw_scalar_parser(idx.v, "idx", IdxLims)
         IN  IF e.type # "none"
             THEN [err |-> e, ret |-> None, cursor |-> c]
             ELSE isliceNext(c, plen, idx.v)
    ELSE IF idx.t = "slice"
    THEN LET start == IF idx.start = None THEN 0 ELSE idx.start[1]
             stop == IF idx.stop = None THEN _iterlen ELSE idx.stop[1]
         IN  IF \/ ~(0 <= start /\ start < _iterlen)
                \/ ~(0 < stop /\ stop <= _iterlen)
             THEN [err |-> SPWValueError(Between(0, _iterlen), "idx",
                                         <<start, stop, idx.step>>),
                   ret |-> None, cursor |-> c]
             ELSE hstackIslice(c, plen, start, stop, idx.step)
    ELSE IF idx.t = "list"
    THEN LET e == spw_array_parser(idx.v, "idx", ArrLims)
         IN  IF e.type # "none"
             THEN [err |-> e, ret |-> None, cursor |-> c]
             ELSE listTake(c, plen, idx.v, <<>>)
    ELSE [err |-> SPWTypeError("idx", "int_like or slice"), ret |-> None,
          cursor |-> c]

\* a mis-written __iter__: an iterator of its own over the same source
__iter__Fresh == (_iterobj % NProd) + 1

\* Indexer.__iter__: the iterator handed out
__iter__ == _iterobj

\* Indexer.__len__
__len__ == _iterlen

\* one entry of the call log: pre/post are the cursor of the Indexer's own
\* producer before and after the call, obj is the Indexer called
Entry(op, arg, r, post) ==
    [op |-> op, arg |-> arg, ret |-> r.ret, err |-> r.err,
     pre |-> cursor[_iterobj], post |-> post, obj |-> self]

LSIdle ==
    /\ plen = 0
    /\ cursor = [p \in 1..NProd |-> 0]
    /\ _iterobj = 1
    /\ _iterlen = 0
    /\ it = 0
    /\ log = <<>>

\* Indexer(iterobj, iterlen) over one of the producers of the heap
LSInit ==
    /\ plen \in 0..MaxLen
    /\ cursor = [p \in 1..NProd |-> 0]
    /\ _iterobj \in 1..NProd
    /\ _iterlen \in 0..MaxLen
    /\ it = 0
    /\ log = <<>>

\* indexer[idx]
Index ==
    /\ self # 0
    /\ Len(log) < MaxCalls
    /\ \E idx \in {NumIdx(i) : i \in -1..(_iterlen + 1)} \cup {OtherIdx} :
          LET r == Indexer__getitem__(idx, cursor[_iterobj])
          IN  /\ cursor' = [cursor EXCEPT ![_iterobj] = r.cursor]
              /\ log' = Append(log, Entry("index", idx, r, r.cursor))
    /\ UNCHANGED <<plen, _iterobj, _iterlen, it>>
    /\ UNCHANGED vmvars
    /\ UNCHANGED bdvars

\* the slices of the runs: the ranges over the first two positions with and
\* without defaults, a stride of 2, an inverted range, a step of 0, and the
\* ranges that leave [0, L] on either side
Slices ==
    {SliceIdx(a, b, None) : a \in {None, Some(1)}, b \in {None, Some(1), Some(2)}}
    \cup {SliceIdx(None, None, Some(2)), SliceIdx(None, None, Some(0)),
          SliceIdx(Some(2), Some(1), None), SliceIdx(Some(_iterlen), None, None),
          SliceIdx(None, Some(0), None), SliceIdx(None, Some(_iterlen + 1), None)}

\* the lists of the runs: none, one and two positions, in and out of order,
\* and the positions just outside 0..L-1
Lists ==
    {ListIdx(v) : v \in {<<>>, <<0>>, <<1>>, <<0, 0>>, <<1, 0>>, <<_iterlen>>,
                         <<0, _iterlen + 1>>, <<-1>>}}

\* indexer[start:stop:step]
IndexSlice ==
    /\ self # 0
    /\ Len(log) + 1 < MaxCalls
    /\ \E idx \in Slices :
          LET r == Indexer__getitem__(idx, cursor[_iterobj])
          IN  /\ cursor' = [cursor EXCEPT ![_iterobj] = r.cursor]
              /\ log' = Append(log, Entry("slice", idx, r, r.cursor))
    /\ UNCHANGED <<plen, _iterobj, _iterlen, it>>
    /\ UNCHANGED vmvars
    /\ UNCHANGED bdvars

\* indexer[[i, j, ...]]
IndexArray ==
    /\ self # 0
    /\ Len(log) + 1 < MaxCalls
    /\ \E idx \in Lists :
          LET r == Indexer__getitem__(idx, cursor[_iterobj])
          IN  /\ cursor' = [cursor EXCEPT ![_iterobj] = r.cursor]
              /\ log' = Append(log, Entry("array", idx, r, r.cursor))
    /\ UNCHANGED <<plen, _iterobj, _iterlen, it>>
    /\ UNCHANGED vmvars
    /\ UNCHANGED bdvars

\* Indexer(iterobj, iterlen) over the first producer of the heap, of one of
\* the two largest lengths
LSInitIx ==
    /\ plen \in 0..MaxLen
    /\ cursor = [p \in 1..NProd |-> 0]
    /\ _iterobj = 1
    /\ _iterlen \in (MaxIdxLen - 1)..MaxIdxLen
    /\ it = 0
    /\ log = <<>>

\* iter(indexer)
Iterate ==
    /\ self # 0
    /\ Len(log) < MaxCalls
    /\ it' = __iter__
    /\ log' = Append(log, Entry("iter", OtherIdx,
                                [ret |-> Some(__iter__), err |-> NoErr],
                                cursor[_iterobj]))
    /\ UNCHANGED <<plen, cursor, _iterobj, _iterlen>>
    /\ UNCHANGED vmvars
    /\ UNCHANGED bdvars

\* next(...) on the iterator iter(indexer) returned: one step of a for loop
IterNext ==
    /\ self # 0
    /\ Len(log) < MaxCalls
    /\ it # 0
    /\ LET r == next(cursor[it], plen)
       IN  /\ cursor' = [cursor EXCEPT ![it] = r.cursor]
           /\ log' = Append(log, Entry("next", OtherIdx, r, cursor'[_iterobj]))
    /\ UNCHANGED <<plen, _iterobj, _iterlen, it>>
    /\ UNCHANGED vmvars
    /\ UNCHANGED bdvars

\* len(indexer)
Length ==
    /\ self # 0
    /\ Len(log) < MaxCalls
    /\ log' = Append(log, Entry("len", OtherIdx,
                                [ret |-> Some(__len__), err |-> NoErr],
                                cursor[_iterobj]))
    /\ UNCHANGED <<plen, cursor, _iterobj, _iterlen, it>>
    /\ UNCHANGED vmvars
    /\ UNCHANGED bdvars

\* ----------------------------------------------------------------- BaseData
NoTable == [kind |-> "none", rows |-> <<>>]
Table(rows) == [kind |-> "table", rows |-> rows]

\* no BaseData object is in use
BDIdle ==
    /\ _trialinfo = NoTable
    /\ seqs = <<>>
    /\ self = 0

\* the caller built the Indexer directly: Indexer(iterobj, iterlen)
BDDirect ==
    /\ _trialinfo = NoTable
    /\ seqs = <<[_iterobj |-> _iterobj, _iterlen |-> _iterlen]>>
    /\ self = 1

\* the ranges the rows of a segment table are drawn from: the first
\* position, the positions from 1 up to the widest chunk, and a range that
\* ends past every chunk
SegRanges == {<<0, 1>>, <<1, MaxCols>>, <<0, MaxCols + 1>>}

\* no table, the empty table, and the tables of up to MaxSegs rows whose last
\* row is any of the ranges and whose rows before it are the first position
SegTables ==
    {NoTable, Table(<<>>)}
    \cup {Table([k \in 1..n |-> IF k < n THEN <<0, 1>> ELSE last]) :
             n \in 1..MaxSegs, last \in SegRanges}

\* the tables whose rows are all the same range
PlainTables ==
    {t \in SegTables : \A k \in 1..Len(t.rows) : t.rows[k] = <<0, 1>>}

\* the selector line 213 puts behind the comma
segmentRange(segno) ==
    SliceSel(Some(_trialinfo.rows[segno + 1][1]),
             Some(_trialinfo.rows[segno + 1][2]))

\* a mis-written _get_segment: the range selects rows, all columns are kept
_get_segmentRows(segno) ==
    __getitem__(segmentRange(segno), SliceSel(None, None))

\* BaseData._get_segment(segno): self._chunks[:, start:stop]
_get_segment(segno) ==
    __getitem__(SliceSel(None, None), segmentRange(segno))

\* a mis-written accessor: one map object kept and handed out at every read
segmentsProducerKept ==
    IF seqs = <<>> THEN Len(seqs) + 1 ELSE seqs[1]._iterobj

\* line 55: the map object a read of obj.segments creates, a heap cell of
\* its own whose cursor is 0
segmentsProducer == Len(seqs) + 1

\* BaseData.segments: what a read of the property returns
segments ==
    IF _trialinfo.kind = "table"
    THEN Some([_iterobj |-> segmentsProducer,
               _iterlen |-> Len(_trialinfo.rows)])
    ELSE None

\* a BaseData object whose loader has set (or not set) its segment table
BDInit(tables) ==
    /\ _trialinfo \in tables
    /\ seqs = <<>>
    /\ self = 0
    /\ plen = Len(_trialinfo.rows)
    /\ cursor = [p \in 1..NProd |-> 0]
    /\ _iterobj = 1
    /\ _iterlen = 0
    /\ it = 0
    /\ log = <<>>

\* obj.segments: the caller reads the property and works with what it got
Segments ==
    /\ Len(seqs) < NProd
    /\ IF segments = None
       THEN /\ self' = 0
            /\ UNCHANGED <<seqs, _iterobj, _iterlen>>
       ELSE /\ seqs' = Append(seqs, segments[1])
            /\ self' = Len(seqs) + 1
            /\ _iterobj' = segments[1]._iterobj
            /\ _iterlen' = segments[1]._iterlen
    /\ it' = 0
    /\ UNCHANGED <<plen, cursor, log, _trialinfo>>
    /\ UNCHANGED vmvars

\* the caller turns to another of the Indexers it obtained
Use ==
    /\ \E k \in 1..Len(seqs) :
          /\ k # self
          /\ self' = k
          /\ _iterobj' = seqs[k]._iterobj
          /\ _iterlen' = seqs[k]._iterlen
    /\ it' = 0
    /\ UNCHANGED <<plen, cursor, log, _trialinfo, seqs>>
    /\ UNCHANGED vmvars

\* next(...) on the map object behind obj.segments: range(L) yields the
\* next segment number and _get_segment is applied to it
SegNext ==
    /\ pc = "built"
    /\ self # 0
    /\ Len(log) < MaxCalls
    /\ LET r == next(cursor[_iterobj], plen)
       IN  /\ cursor' = [cursor EXCEPT ![_iterobj] = r.cursor]
           /\ log' = Append(log, Entry("next", OtherIdx, r, r.cursor))
           /\ IF r.err.type = "none"
              THEN LET g == _get_segment(r.ret[1])
                   IN  /\ q' = [row |-> SliceSel(None, None),
                                col |-> segmentRange(r.ret[1]),
                                made |-> TRUE]
                       /\ res' = g.res
                       /\ err' = g.err
              ELSE /\ q' = NoQuery
                   /\ res' = NoRes
                   /\ err' = r.err
    /\ UNCHANGED <<store, chunk_list, pc, _M, _N, _shape, _size, _nrows,
                   _data, _rows, wlog>>
    /\ UNCHANGED <<plen, _iterobj, _iterlen, it>>
    /\ UNCHANGED <<_trialinfo, seqs, self>>

\* ----------------------------------------------------------- specifications
\* ChunkData: construction and queries
Init == VMInit /\ LSIdle /\ BDIdle
Next == Construct \/ Get \/ Release
Spec == Init /\ [][Next]_vars

\* ChunkData: construction, queries, and in-place writes to the chunks and to
\* the blocks the queries returned
NextW == Construct \/ Get \/ Release \/ WriteChunk \/ WriteResult
SpecW == Init /\ [][NextW]_vars

\* Indexer: calls on one Indexer
InitLS == LSInit /\ VMIdle /\ BDDirect
NextLS == Index \/ Iterate \/ IterNext \/ Length
SpecLS == InitLS /\ [][NextLS]_vars

\* Indexer: calls of every kind on one Indexer
InitIx == LSInitIx /\ VMIdle /\ BDDirect
NextIx == Index \/ IndexSlice \/ IndexArray \/ Iterate \/ IterNext
SpecIx == InitIx /\ [][NextIx]_vars

\* BaseData over a ChunkData: one read of obj.segments and the steps of the
\* producer behind it
InitSeg == VMInit /\ BDInit(SegTables)
NextSeg == Construct \/ (self = 0 /\ Segments) \/ SegNext
SpecSeg == InitSeg /\ [][NextSeg]_vars

\* BaseData: reads of obj.segments and calls on the Indexers they returned
InitSeq == VMIdle /\ BDInit(PlainTables)
NextSeq == Segments \/ Use \/ Index \/ Iterate \/ IterNext
SpecSeq == InitSeq /\ [][NextSeq]_vars

\* ------------------------------------------- vocabulary of the ChunkData claims
\* the chunk list is a list of CHUNKS (rank 2 each)
AllRank2 ==
    /\ chunk_list.kind = "list"
    /\ \A i \in 1..Len(chunk_list.items) :
          Len(store[chunk_list.items[i]].shape) = 2

\* rows and columns of the i-th chunk handed to the constructor (1-based)
RowsOfChunk(i) == store[chunk_list.items[i]].shape[1]
ColsOfChunk(i) == store[chunk_list.items[i]].shape[2]

RECURSIVE RowsBefore(_)
\* number of rows of the first i chunks handed to the constructor
RowsBefore(i) == IF i = 0 THEN 0 ELSE RowsBefore(i - 1) + RowsOfChunk(i)

TotalRows == RowsBefore(Len(chunk_list.items))

\* the chunk (1-based position in the list) global row g lies in
ChunkOf(g) ==
    CHOOSE i \in 1..Len(chunk_list.items) :
        RowsBefore(i - 1) <= g /\ g < RowsBefore(i)

\* the storage as it was before any write
Store0 == [h \in DOMAIN store |-> Chunk(h, store[h].shape)]

RECURSIVE Stacked(_, _)
\* the row-wise concatenation of the first i chunks of the list, over the
\* storage st: a sequence of rows, each a sequence of cells
Stacked(st, i) ==
    IF i = 0 THEN <<>>
    ELSE Stacked(st, i - 1)
         \o [r \in 1..RowsOfChunk(i) |->
                [c \in 1..ColsOfChunk(i) |->
                    st[chunk_list.items[i]].buf[r - 1][c - 1]]]

Concatenation(st) == Stacked(st, Len(chunk_list.items))

\* global rows a..b-1, columns c..d-1 of the concatenation over storage st
Expect(st, a, b, c, d) ==
    LET all == Concatenation(st)
    IN  [i \in 1..(b - a) |-> [j \in 1..(d - c) |-> all[a + i][c + j]]]

\* the half-open range a selector stands for on an axis of the given extent
Typed(sel) == sel.t \in {"int", "slice"}
Lo(sel, extent) ==
    IF sel.t = "int" THEN sel.v
    ELSE IF sel.start = None THEN 0 ELSE sel.start[1]
Hi(sel, extent) ==
    IF sel.t = "int" THEN sel.v + 1
    ELSE IF sel.stop = None THEN extent ELSE sel.stop[1]

RowLo == Lo(q.row, TotalRows)
RowHi == Hi(q.row, TotalRows)
ColLo == Lo(q.col, ColsOfChunk(1))
ColHi == Hi(q.col, ColsOfChunk(1))

\* a query was made with 0 <= row.start < row.stop <= M and valid columns
Accepted ==
    /\ q.made
    /\ Typed(q.row) /\ Typed(q.col)
    /\ 0 <= RowLo /\ RowLo < RowHi /\ RowHi <= TotalRows
    /\ 0 <= ColLo /\ ColLo < ColHi /\ ColHi <= ColsOfChunk(1)

\* what a caller reads through a returned block now
Contents(r) ==
    IF r.kind = "view" THEN Block(r.base, r.rows, r.cols) ELSE r.buf

\* every write since the query was of the given kind
OnlyWrites(kind) ==
    IF kind = "chunk" THEN wlog.result = 0 ELSE wlog.chunk = 0

SlotsAre(sl) ==
    /\ _nrows = sl._nrows /\ _rows = sl._rows /\ _M = sl._M /\ _N = sl._N
    /\ _shape = sl._shape /\ _size = sl._size /\ _data = sl._data

\* ------------------------------------------------------------------------ C1
\* C1: an accepted query whose first and last row lie in the same chunk
\* returns a view of that chunk's storage (every later write to the chunk
\* shows through it); a query whose first and last row lie in different
\* chunks returns an owned buffer (a write to the result changes no chunk, a
\* write to a chunk does not change the result).
C1_ViewIffSameChunk ==
    Accepted =>
        IF ChunkOf(RowLo) = ChunkOf(RowHi - 1)
        THEN /\ res.kind = "view"
             /\ res.base = chunk_list.items[ChunkOf(RowLo)]
             /\ Contents(res) = Expect(store, RowLo, RowHi, ColLo, ColHi)
        ELSE /\ res.kind = "owned"
             /\ OnlyWrites("result") => store = Store0
             /\ OnlyWrites("chunk") =>
                   res.buf = Expect(Store0, RowLo, RowHi, ColLo, ColHi)

\* a chunk was written after a same-chunk query of two rows and the view
\* shows the write
C1_Witness ==
    /\ Accepted
    /\ ChunkOf(RowLo) = ChunkOf(RowHi - 1)
    /\ RowHi - RowLo = 2
    /\ res.kind = "view"
    /\ wlog = [chunk |-> 1, result |-> 0]
    /\ Contents(res) # Expect(Store0, RowLo, RowHi, ColLo, ColHi)
    /\ Contents(res)[1][1] = Written(Store0[res.base].buf[res.rows[1]][res.cols[1]])

\* ------------------------------------------------------------------------ C2
\* C2: an accepted query [a, b) x [c, d) returns exactly rows a..b-1, in
\* order, columns c..d-1, of the row-wise concatenation of the chunks in list
\* order, however many chunk boundaries [a, b) crosses.
C2_RowsOfConcatenation ==
    (Accepted /\ wlog = NoWrites) =>
        /\ err = NoErr
        /\ res.kind \in {"view", "owned"}
        /\ Contents(res) = Expect(Store0, RowLo, RowHi, ColLo, ColHi)

\* a query over three chunks, the middle one non-empty and taken whole, with
\* a proper column range
C2_Witness ==
    /\ Accepted /\ wlog = NoWrites
    /\ ChunkOf(RowHi - 1) = ChunkOf(RowLo) + 2
    /\ RowsOfChunk(ChunkOf(RowLo) + 1) > 0
    /\ RowLo > 0 /\ RowHi < TotalRows
    /\ ColHi - ColLo < ColsOfChunk(1)
    /\ Len(Contents(res)) = RowHi - RowLo

RowOutside == RowLo < 0 \/ RowHi > TotalRows
ColOutside == ColLo < 0 \/ ColHi > ColsOfChunk(1)

C4_BoundsError ==
    (q.made /\ Typed(q.row) /\ Typed(q.col) /\ (RowOutside \/ ColOutside)) =>
        /\ err.type = "SPWValueError"
        /\ \/ /\ err.varname = "row"
              /\ err.legal = Between(0, TotalRows)
              /\ err.actual \in {<<RowLo>>, <<RowLo, RowHi>>}
           \/ /\ err.varname = "col"
              /\ err.legal = Between(0, ColsOfChunk(1))
              /\ err.actual \in {<<ColLo>>, <<ColLo, ColHi>>}
        /\ res = NoRes
        /\ SlotsAre(Slots(chunk_list.items))
        /\ wlog = NoWrites => store = Store0

\* the integer row selector M failed the limits test as the range [M, M+1)
C4_Witness ==
    /\ q.made
    /\ q.row = IntSel(TotalRows)
    /\ Typed(q.col) /\ ~ColOutside
    /\ err.type = "SPWValueError"
    /\ err.varname = "row"
    /\ err.actual = <<TotalRows, TotalRows + 1>>
    /\ res = NoRes

\* ------------------------------------------------------------------------ C5
\* C5: constructing from rank-2 chunks whose column counts differ fails with
\* the SPWValueError "identical number of samples per chunk", and no slot of
\* the object has been assigned.
C5_MismatchAtomic ==
    (pc # "new" /\ AllRank2
     /\ \E i \in 1..Len(chunk_list.items) : ColsOfChunk(i) # ColsOfChunk(1)) =>
        /\ pc = "failed"
        /\ err.type = "SPWValueError"
        /\ err.legal = "identical number of samples per chunk"
        /\ SlotsAre(NoSlots)
        /\ ~q.made /\ res = NoRes

\* construction from chunks of shapes (2,2) and (2,1) failed
C5_Witness ==
    /\ pc = "failed"
    /\ Len(chunk_list.items) = 2
    /\ store[chunk_list.items[1]].shape = <<2, 2>>
    /\ store[chunk_list.items[2]].shape = <<2, 1>>
    /\ err.type = "SPWValueError"

\* ------------------------------------------------------------------------ C6
\* C6: constructing from an empty chunk list fails with the library's
\* shape/consistency error (SPWValueError), not with another failure.
C6_EmptyInputError ==
    (pc # "new" /\ chunk_list.kind = "list" /\ chunk_list.items = <<>>) =>
        /\ pc = "failed"
        /\ err.type = "SPWValueError"

\* --------------------------------------------- vocabulary of the Indexer claims
IsIndex(e) == e.op = "index" /\ e.arg.t = "int"

\* the log is index(0), index(1), ..., in that order and nothing else, none
\* of the indices beyond L-1
SequentialIndexing ==
    /\ Len(log) <= _iterlen
    /\ \A k \in 1..Len(log) :
          log[k].op = "index" /\ log[k].arg = NumIdx(k - 1)

\* ------------------------------------------------------------------------ C7
\* C7: on an Indexer of length L over a producer of L elements, the calls
\* index(0), index(1), ... made in this order all succeed and the k-th of
\* them returns producer element k.
C7_SequentialIndexReturnsAll ==
    (plen = _iterlen /\ SequentialIndexing) =>
        \A k \in 1..Len(log) :
            log[k].err = NoErr /\ log[k].ret = Some(k - 1)

\* ------------------------------------------------------------------------ C8
\* C8: index(i) with 0 <= i < L on a producer that has yielded c elements
\* skips i elements, returns element c+i and leaves the cursor at c+i+1;
\* when fewer than i+1 elements remain the producer is run to its end and
\* the call fails with StopIteration, returning nothing.
C8_CursorRelative ==
    \A k \in 1..Len(log) :
        LET e == log[k]
        IN  (IsIndex(e) /\ 0 <= e.arg.v /\ e.arg.v < _iterlen) =>
                IF e.pre + e.arg.v < plen
                THEN /\ e.err = NoErr
                     /\ e.ret = Some(e.pre + e.arg.v)
                     /\ e.post = e.pre + e.arg.v + 1
                ELSE /\ e.err = StopIteration
                     /\ e.ret = None
                     /\ e.post = plen

\* index(3) returned element 3, the following index(0) element 4
C8_Witness ==
    /\ Len(log) = 2
    /\ log[1].op = "index" /\ log[1].arg = NumIdx(3) /\ log[1].ret = Some(3)
    /\ log[2].op = "index" /\ log[2].arg = NumIdx(0) /\ log[2].ret = Some(4)

\* ------------------------------------------------------------------------ C9
\* C9: iter(indexer) is the Indexer's own producer: every step of an
\* iteration yields the element at the shared cursor and moves that cursor
\* by one, a step on the exhausted producer yields nothing, and no other
\* producer is advanced.
C9_IterateIsTheProducer ==
    /\ it \in {0, _iterobj}
    /\ \A p \in 1..NProd : p # _iterobj => cursor[p] = 0
    /\ \A k \in 1..Len(log) :
          LET e == log[k]
          IN  /\ e.op = "iter" => e.ret = Some(_iterobj) /\ e.post = e.pre
              /\ e.op = "next" =>
                    IF e.pre < plen
                    THEN e.err = NoErr /\ e.ret = Some(e.pre)
                         /\ e.post = e.pre + 1
                    ELSE e.err = StopIteration /\ e.ret = None
                         /\ e.post = e.pre
              /\ k > 1 => e.pre = log[k - 1].post

\* after index(1) consumed elements 0 and 1, an iteration started at
\* element 2
C9_Witness ==
    /\ Len(log) = 3
    /\ log[1].op = "index" /\ log[1].arg = NumIdx(1) /\ log[1].ret = Some(1)
    /\ log[2].op = "iter"
    /\ log[3].op = "next" /\ log[3].ret = Some(2)

\* ----------------------------------------------------------------------- C10
\* C10: index(i) with i < 0 or i >= L fails with SPWValueError and leaves
\* the cursor where it was, so the next call starts from the same cursor;
\* len(indexer) returns L and leaves the cursor where it was.
C10_BoundsErrorKeepsCursor ==
    \A k \in 1..Len(log) :
        LET e == log[k]
        IN  /\ (IsIndex(e) /\ (e.arg.v < 0 \/ e.arg.v >= _iterlen)) =>
                  /\ e.err.type = "SPWValueError"
                  /\ e.ret = None
                  /\ e.post = e.pre
                  /\ k < Len(log) => log[k + 1].pre = e.pre
            /\ e.op = "len" =>
                  /\ e.ret = Some(_iterlen)
                  /\ e.err = NoErr
                  /\ e.post = e.pre

\* index(L) failed between two successful index(0) calls, which returned
\* consecutive elements
C10_Witness ==
    /\ Len(log) = 3
    /\ _iterlen > 1
    /\ log[1].op = "index" /\ log[1].arg = NumIdx(0) /\ log[1].ret = Some(0)
    /\ log[2].op = "index" /\ log[2].arg = NumIdx(_iterlen)
    /\ log[2].err.type = "SPWValueError"
    /\ log[3].op = "index" /\ log[3].arg = NumIdx(0) /\ log[3].ret = Some(1)

\* ----------------------------------------------------------------------- C11
\* the last call was a step of the segment producer that reached a row of the
\* segment table
Yielded ==
    /\ log # <<>>
    /\ log[Len(log)].op = "next"
    /\ log[Len(log)].ret # None

\* the segment number that step worked on, and its row of the table
LastSegno == log[Len(log)].ret[1]
LastSeg == _trialinfo.rows[LastSegno + 1]

FirstCallOn(k) == \A j \in 1..(k - 1) : log[j].obj # log[k].obj

\* segments[i] on a newly obtained sequence returns segment i
FreshIndexIsAbsolute ==
    \A k \in 1..Len(log) :
        (/\ FirstCallOn(k)
         /\ log[k].op = "index"
         /\ log[k].arg.t = "int"
         /\ 0 <= log[k].arg.v
         /\ log[k].arg.v < Len(_trialinfo.rows))
        => /\ log[k].err = NoErr
           /\ log[k].ret = Some(log[k].arg.v)
           /\ log[k].pre = 0

\* a read of obj.segments that returned an Indexer returned one whose
\* producer no Indexer obtained before has, with its cursor at 0
ReadIsNew ==
    (Len(seqs') > Len(seqs))
    => /\ cursor'[_iterobj'] = 0
       /\ _iterlen' = Len(_trialinfo.rows)
       /\ \A k \in 1..Len(seqs) : seqs[k]._iterobj # _iterobj'

\* a call on one Indexer leaves the cursor of every other one where it was
OthersKeepCursor ==
    (log' # log)
    => \A k \in 1..Len(seqs) :
          k # self => cursor'[seqs[k]._iterobj] = cursor[seqs[k]._iterobj]

\* C12: every read of obj.segments builds a new Indexer over a newly
\* created producer whose cursor is 0; whatever was done with the Indexers
\* obtained before, segments[i] on a newly obtained one returns segment i
\* for every 0 <= i < L; and a call on one obtained Indexer never moves the
\* cursor of another.
C12_FreshSequencePerRead ==
    /\ []FreshIndexIsAbsolute
    /\ [][ReadIsNew /\ OthersKeepCursor]_vars

\* two reads: the first Indexer was indexed, then the second one returned
\* segment 1 for segments[1] and the cursor of the first stayed at 1
C12_Witness ==
    /\ Len(seqs) = 2
    /\ Len(log) = 2
    /\ log[1].obj = 1 /\ log[1].op = "index" /\ log[1].ret = Some(0)
    /\ log[2].obj = 2 /\ log[2].op = "index" /\ log[2].ret = Some(1)
    /\ log[2].arg = NumIdx(1)
    /\ cursor[seqs[1]._iterobj] = 1
    /\ cursor[seqs[2]._iterobj] = 2

\* ----------------------------------------------------------------------- C13
\* some entry of the list handed to the call lies outside [0, L)
OutsideIdx(e) ==
    \E k \in 1..Len(e.arg.v) : e.arg.v[k] < 0 \/ e.arg.v[k] >= _iterlen

\* the block is made of one element per entry of the list, each found by
\* skipping that many elements from where the one before left the cursor
OneByOne(e) ==
    LET cat == e.ret[1].cat
        from(k) == IF k = 1 THEN e.pre ELSE cat[k - 1] + 1
    IN  /\ Len(cat) = Len(e.arg.v)
        /\ \A k \in 1..Len(cat) : cat[k] = from(k) + e.arg.v[k]
        /\ e.post = cat[Len(cat)] + 1

\* C13: indexer[list] checks every entry of the list against [0, L) before
\* it produces anything: with an entry outside [0, L), an entry equal to L
\* included, the call raises the bounds error and the cursor stays; otherwise
\* the entries are resolved one by one in the order given, each by the
\* skip-then-take step of indexer[i].
C13_ArrayValidatedThenOneByOne ==
    \A k \in 1..Len(log) :
        log[k].op = "array"
        => IF OutsideIdx(log[k])
           THEN log[k].err.type = "SPWValueError" /\ log[k].post = log[k].pre
           ELSE log[k].err = NoErr => OneByOne(log[k])

\* ----------------------------------------------------------------------- C14
\* the bounds of a slice once the defaults are filled in
SliceStart(e) == IF e.arg.start = None THEN 0 ELSE e.arg.start[1]
SliceStop(e) == IF e.arg.stop = None THEN _iterlen ELSE e.arg.stop[1]

SliceInBounds(e) ==
    /\ 0 <= SliceStart(e) /\ SliceStart(e) < _iterlen
    /\ 0 < SliceStop(e) /\ SliceStop(e) <= _iterlen

\* C14: indexer[start:stop:step] is skip-then-take over the shared producer.
\* With the defaults start = 0 and stop = L, bounds outside 0 <= start < L,
\* 0 < stop <= L raise the bounds error and leave the cursor; otherwise, with
\* the cursor at c and at least stop elements left in the producer, the call
\* with step 1 returns the elements c+start, ..., c+stop-1 side by side and
\* leaves the cursor at c+stop.
C14_SliceSkipThenTake ==
    \A k \in 1..Len(log) :
        log[k].op = "slice"
        => IF ~SliceInBounds(log[k])
           THEN log[k].err.type = "SPWValueError" /\ log[k].post = log[k].pre
           ELSE (/\ plen - log[k].pre >= SliceStop(log[k])
                 /\ log[k].arg.step \in {None, Some(1)})
                => /\ log[k].err = NoErr
                   /\ log[k].ret
                        = Some(Hstack([j \in 1..(SliceStop(log[k])
                                                  - SliceStart(log[k]))
                                          |-> log[k].pre + SliceStart(log[k])
                                              + j - 1]))
                   /\ log[k].post = log[k].pre + SliceStop(log[k])

\* ----------------------------------------------------------------------- C15
\* the row-range table starts at 0, each range is as long as its chunk and
\* ends where the next one starts, the last one ends at M, and every global
\* row lies in the range of exactly one chunk
TableCoversRows ==
    pc = "built"
    => /\ Len(_rows) = Len(chunk_list.items)
       /\ _rows[1].start = 0
       /\ \A i \in 1..Len(_rows) :
             /\ _rows[i].stop = _rows[i].start + RowsOfChunk(i)
             /\ i < Len(_rows) => _rows[i].stop = _rows[i + 1].start
       /\ _rows[Len(_rows)].stop = _M
       /\ \A g \in 0..(_M - 1) :
             Cardinality({i \in 1..Len(_rows) :
                            _rows[i].start <= g /\ g < _rows[i].stop}) = 1

\* a step taken on a constructed object leaves the table, the chunk list and
\* the shape as they are
GetKeepsTable ==
    pc = "built"
    => UNCHANGED <<_rows, _nrows, _data, chunk_list, _shape, _M, _N, _size>>

\* C15: in every constructed ChunkData the row-range table is contiguous,
\* non-overlapping and covers exactly [0, M), so that every global row lies
\* in the range of exactly one chunk, chunks without rows included; and no
\* sequence of queries, accepted or refused, changes the table, the chunk
\* list or the shape.
C15_RowTableCoversAndStays ==
    /\ []TableCoversRows
    /\ [][GetKeepsTable]_vars

\* three chunks, the middle one without rows, and a query was refused
C15_Witness ==
    /\ pc = "built"
    /\ Len(chunk_list.items) = 3
    /\ RowsOfChunk(1) = 1 /\ RowsOfChunk(2) = 0 /\ RowsOfChunk(3) = 2
    /\ _rows = <<rowRange(0, 1), rowRange(1, 1), rowRange(1, 3)>>
    /\ q.made
    /\ err.type = "SPWValueError"

\* ----------------------------------------------------------------------- C16
\* C16: every query that does not fail returns a block of exactly
\* row.stop - row.start rows, the global rows row.start..row.stop-1 in
\* ascending order; a row range with row.start >= row.stop that passes the
\* limits test (an empty range at a chunk boundary, an inverted range) never
\* returns a row.
C16_RowsOfTheRangeOnly ==
    (q.made /\ err = NoErr)
    => IF RowLo < RowHi
       THEN Contents(res) = Expect(Store0, RowLo, RowHi, ColLo, ColHi)
       ELSE Len(Contents(res)) = 0

\* ----------------------------------------------------------------------- C17
\* the producer elements a logged call handed to its caller, in order
Handed(e) ==
    IF e.op \in {"index", "next"}
    THEN IF e.ret = None THEN <<>> ELSE <<e.ret[1]>>
    ELSE IF e.op \in {"slice", "array"}
    THEN IF e.ret = None THEN <<>> ELSE e.ret[1].cat
    ELSE <<>>

RECURSIVE HandedUpTo(_)
\* the elements handed out by the first k logged calls
HandedUpTo(k) ==
    IF k = 0 THEN <<>> ELSE HandedUpTo(k - 1) \o Handed(log[k])

\* C17: whatever the order of the steps of a for loop and of the calls with a
\* number, a slice or a list on one Indexer, the cursor of its producer never
\* moves back and never passes the end of the producer, the elements handed
\* out come in strictly increasing position (so none is handed out twice),
\* and a call made with the cursor at the end returns no element.
C17_SinglePass ==
    LET all == HandedUpTo(Len(log))
    IN  /\ cursor[_iterobj] <= plen
        /\ \A k \in 1..Len(log) :
              /\ log[k].pre <= log[k].post
              /\ log[k].post
                   <= IF k < Len(log) THEN log[k + 1].pre ELSE cursor[_iterobj]
              /\ log[k].pre = plen => Handed(log[k]) = <<>>
        /\ \A i \in 1..Len(all) : \A j \in 1..Len(all) :
              i < j => all[i] < all[j]

\* a slice handed out elements 0 and 1, a list the element one past the
\* cursor, which took the producer to its end, and a call with a number then
\* ran into StopIteration
C17_Witness ==
    /\ Len(log) = 3
    /\ log[1].op = "slice" /\ Handed(log[1]) = <<0, 1>>
    /\ log[2].op = "array" /\ Handed(log[2]) = <<3>>
    /\ log[2].post = plen
    /\ log[3].op = "index" /\ log[3].err = StopIteration
    /\ cursor[_iterobj] = plen


====
